---- MODULE Spec2Model ----
(***************************************************************************)
(* VirtualCoffee beverages API (drinksApi/app/main.py): the in-memory      *)
(* store beverages_db / next_id and its handlers.                          *)
(*                                                                         *)
(* Strings are sequences of one-character strings.  Prices are integers    *)
(* counting thousandths (4567 is 4.567), so that rounding to 2 decimals is *)
(* a real conversion.                                                      *)
(*                                                                         *)
(* The response of a handler is validated against its response_model, as   *)
(* FastAPI does: a returned dict that fails BeverageResponse is answered   *)
(* 500 after the handler has run.                                          *)
(*                                                                         *)
(* Spec       : the handlers run one request at a time.                    *)
(* SpecWide   : the same, with more prices in the request bodies.          *)
(* SpecMenu   : Spec and the list request GET /menu.                       *)
(* SpecFields : requests that vary name, size and price independently.     *)
(* SpecPrices : requests with prices at the ends of the accepted range.    *)
(* SpecNames  : requests with names at the ends of the accepted length.    *)
(* SpecConc   : two threads inside add_beverage, one statement per step.   *)
(* SpecReplaceDelete : a thread inside update_beverage and a thread inside *)
(*              delete_beverage, one statement per step.                   *)
(***************************************************************************)
EXTENDS Integers, Sequences, FiniteSets, TLC

VARIABLES beverages_db,  \* the list of stored dicts
          next_id,       \* the global id counter
          last,          \* the last request served and its response
          issued,        \* history: ids handed out by add_beverage since reset
          pc,            \* per-thread position inside its handler
          req,           \* per-thread request body (validated Beverage)
          it,            \* per-thread index of the loop's iterator
          new_beverage,  \* per-thread dict built at line 146 or 159
          tmp            \* per-thread value of next_id read by "next_id += 1",
                         \* or index of the inner loop's iterator

vars == <<beverages_db, next_id, last, issued, pc, req, it, new_beverage, tmp>>

\* ---------------------------------------------------------------- bounds

\* add_beverage is not taken once next_id exceeds MaxId
MaxId == 2

\* ---------------------------------------------------------------- strings

LowerChar(c) ==
    IF c = "A" THEN "a" ELSE IF c = "B" THEN "b" ELSE c

\* str.lower()
Lower(s) == [i \in 1..Len(s) |-> LowerChar(s[i])]

IsSpace(c) == c = " "

RECURSIVE LStrip(_)
LStrip(s) ==
    IF s # <<>> /\ IsSpace(Head(s)) THEN LStrip(Tail(s)) ELSE s

RECURSIVE RStrip(_)
RStrip(s) ==
    IF s # <<>> /\ IsSpace(s[Len(s)]) THEN RStrip(SubSeq(s, 1, Len(s) - 1)) ELSE s

\* str.strip()
Strip(s) == RStrip(LStrip(s))

\* ---------------------------------------------------------------- prices

\* round(v, 2) on a price given in thousandths; the result is again in
\* thousandths.  A value exactly halfway between two hundredths goes to
\* whichever side its binary representation lies on, so both are possible.
Round2(v) ==
    LET r == v % 10
        down == v - r
    IN  IF r < 5 THEN {down}
        ELSE IF r > 5 THEN {down + 10}
        ELSE {down, down + 10}

\* ---------------------------------------------------------------- models

\* Field(..., min_length=1, max_length=100), checked on the raw string
NameFieldOk(v) == Len(v) >= 1 /\ Len(v) <= 100

\* Field(..., pattern="^(small|medium|large)$")
SizeFieldOk(v) == v \in {"small", "medium", "large"}

\* the upper bound written lt=100 instead of le=100
PriceFieldOk_Below100(v) == v > 0 /\ v < 100 * 1000

\* Field(..., gt=0, le=100), in thousandths
PriceFieldOk(v) == v > 0 /\ v <= 100 * 1000

\* Beverage.name_must_not_be_empty: does the validator accept v
NameValidatorOk(v) == ~(v = <<>> \/ Strip(v) = <<>>)

\* Beverage.name_must_not_be_empty: the value it returns
name_must_not_be_empty(v) == Strip(v)

\* Beverage.price_must_be_positive: does the validator accept v
PriceValidatorOk(v) == ~(v <= 0) /\ ~(v > 100 * 1000)

\* Beverage.price_must_be_positive: the values it can return
price_must_be_positive(v) == Round2(v)

\* does a request body parse as a Beverage
BeverageOk(raw) ==
    /\ NameFieldOk(raw.name) /\ NameValidatorOk(raw.name)
    /\ SizeFieldOk(raw.size)
    /\ PriceFieldOk(raw.price) /\ PriceValidatorOk(raw.price)

\* the Beverage objects a request body can parse to
Beverage(raw) ==
    { [name |-> name_must_not_be_empty(raw.name), size |-> raw.size, price |-> p] :
        p \in price_must_be_positive(raw.price) }

\* An Optional field is the empty set (None) or a singleton.
IsNone(o) == o = {}
Value(o) == CHOOSE x \in o : TRUE

\* does a request body parse as a BeverageUpdate (Field constraints only)
BeverageUpdateOk(raw) ==
    /\ IsNone(raw.name) \/ NameFieldOk(Value(raw.name))
    /\ IsNone(raw.size) \/ SizeFieldOk(Value(raw.size))
    /\ IsNone(raw.price) \/ PriceFieldOk(Value(raw.price))

\* ---------------------------------------------------------------- inputs

NameInputs ==
    { <<>>, <<" ">>, <<"a">>, <<"A">>, <<" ", "a", " ">>, <<"b">> }

SizeInputs == {"small", "medium", "xl"}

\* 0, 4.567 and 100.01
PriceInputs == {0, 4567, 100010}

\* and 0.004, 0.01 and 100
WidePriceInputs == PriceInputs \cup {4, 10, 100000}

\* a body every field of which passes
GoodBody == [name |-> <<"b">>, size |-> "medium", price |-> 4567]

\* Request bodies for POST and PUT with prices from P: every combination of
\* the names, sizes and prices other than the empty and blank names, "xl", 0
\* and 100.01, and GoodBody with one field replaced by each of the inputs.
Bodies(P) ==
    [name : NameInputs \ {<<>>, <<" ">>}, size : SizeInputs \ {"xl"},
     price : P \ {0, 100010}]
    \cup {[GoodBody EXCEPT !.name = v] : v \in NameInputs}
    \cup {[GoodBody EXCEPT !.size = v] : v \in SizeInputs}
    \cup {[GoodBody EXCEPT !.price = v] : v \in P}

BeverageInputs == Bodies(PriceInputs)

WideBeverageInputs == Bodies(WidePriceInputs)

Optional(S) == {{}} \cup {{x} : x \in S}

NoUpdate == [name |-> {}, size |-> {}, price |-> {}]

\* Request bodies for PATCH with prices from P: at most one field present,
\* or all of GoodBody.
Updates(P) ==
    {[NoUpdate EXCEPT !.name = o] : o \in Optional(NameInputs)}
    \cup {[NoUpdate EXCEPT !.size = o] : o \in Optional(SizeInputs)}
    \cup {[NoUpdate EXCEPT !.price = o] : o \in Optional(P)}
    \cup {[name |-> {GoodBody.name}, size |-> {GoodBody.size},
           price |-> {GoodBody.price}]}

BeverageUpdateInputs == Updates(PriceInputs)

WideBeverageUpdateInputs == Updates(WidePriceInputs)

IdInputs == 1..MaxId

\* ---------------------------------------------------------------- store

NoRecord == [id |-> 0, name |-> <<>>, size |-> "", price |-> 0]

Response(op, status, ret) == [op |-> op, status |-> status, ret |-> ret]

Threads == {1, 2}

Init ==
    /\ beverages_db = <<>>
    /\ next_id = 1
    /\ last = Response("init", 0, NoRecord)
    /\ issued = <<>>
    /\ pc = [t \in Threads |-> "idle"]
    /\ req = [t \in Threads |-> NoRecord]
    /\ it = [t \in Threads |-> 0]
    /\ new_beverage = [t \in Threads |-> NoRecord]
    /\ tmp = [t \in Threads |-> 0]

threadVars == <<pc, req, it, new_beverage, tmp>>

\* the search falling back to the last position instead of falling through
IndexOfId_LastWhenAbsent(db, beverage_id) ==
    IF \E i \in 1..Len(db) : db[i].id = beverage_id
    THEN CHOOSE i \in 1..Len(db) :
            /\ db[i].id = beverage_id
            /\ \A j \in 1..(i - 1) : db[j].id # beverage_id
    ELSE Len(db)

\* the position after the match, as far as the list goes, instead of the
\* position of the match
IndexOfId_AfterMatch(db, beverage_id) ==
    IF \E i \in 1..Len(db) : db[i].id = beverage_id
    THEN LET i == CHOOSE i \in 1..Len(db) :
                     /\ db[i].id = beverage_id
                     /\ \A j \in 1..(i - 1) : db[j].id # beverage_id
         IN  IF i < Len(db) THEN i + 1 ELSE i
    ELSE 0

\* index of the first dict whose id is beverage_id, 0 when the loop falls through
IndexOfId(db, beverage_id) ==
    IF \E i \in 1..Len(db) : db[i].id = beverage_id
    THEN CHOOSE i \in 1..Len(db) :
            /\ db[i].id = beverage_id
            /\ \A j \in 1..(i - 1) : db[j].id # beverage_id
    ELSE 0

\* the request failed FastAPI's body validation: the handler never runs
Unprocessable(op) ==
    /\ last' = Response(op, 422, NoRecord)
    /\ UNCHANGED <<beverages_db, next_id, issued>>

\* the handler raised HTTPException(status)
Raise(op, status) ==
    /\ last' = Response(op, status, NoRecord)
    /\ UNCHANGED <<beverages_db, next_id, issued>>

\* response_model=BeverageResponse: the dict a handler returns is validated
\* against BeverageResponse, which inherits the fields and validators of
\* Beverage
BeverageResponseOk(b) ==
    BeverageOk([name |-> b.name, size |-> b.size, price |-> b.price])

\* the handler returned the dict b: the response is status with b as its
\* body, or 500 when b fails the response model
Reply(op, status, b) ==
    IF BeverageResponseOk(b) THEN Response(op, status, b)
    ELSE Response(op, 500, NoRecord)

\* line 142-145: the uniqueness loop of add_beverage finds a match
AddNameTaken(db, beverage) ==
    LET name_lower == Lower(beverage.name)
    IN  \E k \in 1..Len(db) : Lower(db[k].name) = name_lower

\* the id taken from the length of the list instead of the counter
AddId_FromLength(nid, db) == Len(db) + 1

\* line 146: the id given to the new dict
AddId(nid, db) == nid

\* POST /menu
add_beverage(raw) ==
    /\ IF ~BeverageOk(raw) THEN Unprocessable("add_beverage")
       ELSE \E beverage \in Beverage(raw) :
            IF AddNameTaken(beverages_db, beverage)
            THEN Raise("add_beverage", 400)
            ELSE /\ next_id <= MaxId
                 /\ LET new == [id |-> AddId(next_id, beverages_db),
                                name |-> beverage.name,
                                size |-> beverage.size,
                                price |-> beverage.price]
                    IN  /\ last' = Reply("add_beverage", 201, new)
                        /\ beverages_db' = Append(beverages_db, new)
                        /\ next_id' = next_id + 1
                        /\ issued' = Append(issued, new.id)
    /\ UNCHANGED threadVars

\* line 156-158: the uniqueness loop of update_beverage finds a match
UpdateNameTaken(db, beverage_id, beverage) ==
    LET name_lower == Lower(beverage.name)
    IN  \E k \in 1..Len(db) :
            db[k].id # beverage_id /\ Lower(db[k].name) = name_lower

\* PUT /menu/{beverage_id}
update_beverage(beverage_id, raw) ==
    /\ IF ~BeverageOk(raw) THEN Unprocessable("update_beverage")
       ELSE \E beverage \in Beverage(raw) :
            LET i == IndexOfId(beverages_db, beverage_id) IN
            IF i = 0 THEN Raise("update_beverage", 404)
            ELSE IF UpdateNameTaken(beverages_db, beverage_id, beverage)
            THEN Raise("update_beverage", 400)
            ELSE LET updated == [id |-> beverage_id,
                                 name |-> beverage.name,
                                 size |-> beverage.size,
                                 price |-> beverage.price]
                 IN  /\ last' = Reply("update_beverage", 200, updated)
                     /\ beverages_db' = [beverages_db EXCEPT ![i] = updated]
                     /\ UNCHANGED <<next_id, issued>>
    /\ UNCHANGED threadVars

\* line 168-173: the dict after the three conditional assignments
PatchName(existing, update) ==
    IF ~IsNone(update.name) THEN Strip(Value(update.name)) ELSE existing.name

\* an absent size written back as the default instead of kept
PatchSize_AbsentIsDefault(existing, update) ==
    IF ~IsNone(update.size) THEN Value(update.size) ELSE "medium"

PatchSize(existing, update) ==
    IF ~IsNone(update.size) THEN Value(update.size) ELSE existing.size

PatchPrice(existing, update) ==
    IF ~IsNone(update.price) THEN Round2(Value(update.price)) ELSE {existing.price}

\* PATCH /menu/{beverage_id}
partial_update_beverage(beverage_id, update) ==
    /\ IF ~BeverageUpdateOk(update) THEN Unprocessable("partial_update_beverage")
       ELSE LET i == IndexOfId(beverages_db, beverage_id) IN
            IF i = 0 THEN Raise("partial_update_beverage", 404)
            ELSE \E p \in PatchPrice(beverages_db[i], update) :
                 LET existing == [id |-> beverages_db[i].id,
                                  name |-> PatchName(beverages_db[i], update),
                                  size |-> PatchSize(beverages_db[i], update),
                                  price |-> p]
                 IN  /\ last' = Reply("partial_update_beverage", 200, existing)
                     /\ beverages_db' = [beverages_db EXCEPT ![i] = existing]
                     /\ UNCHANGED <<next_id, issued>>
    /\ UNCHANGED threadVars

\* list.pop(i)
Pop(db, i) == SubSeq(db, 1, i - 1) \o SubSeq(db, i + 1, Len(db))

\* DELETE /menu/{beverage_id}
delete_beverage(beverage_id) ==
    /\ LET i == IndexOfId(beverages_db, beverage_id) IN
       IF i = 0 THEN Raise("delete_beverage", 404)
       ELSE /\ last' = Response("delete_beverage", 204, NoRecord)
            /\ beverages_db' = Pop(beverages_db, i)
            /\ UNCHANGED <<next_id, issued>>
    /\ UNCHANGED threadVars

\* the lookup without strip()
FindByName_NoStrip(db, name) ==
    LET name_lower == Lower(name)
        hits == {k \in 1..Len(db) : Lower(db[k].name) = name_lower}
    IN  IF hits = {} THEN NoRecord
        ELSE db[CHOOSE k \in hits : \A j \in hits : k <= j]

\* line 133-136: the first dict the lookup loop matches, NoRecord if none
FindByName(db, name) ==
    LET name_lower == Strip(Lower(name))
        hits == {k \in 1..Len(db) : Lower(db[k].name) = name_lower}
    IN  IF hits = {} THEN NoRecord
        ELSE db[CHOOSE k \in hits : \A j \in hits : k <= j]

\* GET /menu/{name}
get_beverage_by_name(name) ==
    /\ LET found == FindByName(beverages_db, name) IN
       IF found = NoRecord THEN Raise("get_beverage_by_name", 404)
       ELSE /\ last' = Reply("get_beverage_by_name", 200, found)
            /\ UNCHANGED <<beverages_db, next_id, issued>>
    /\ UNCHANGED threadVars

\* the function without "global next_id": the list is cleared, the counter
\* of the module is not assigned
reset_database_KeepsCounter ==
    /\ beverages_db' = <<>>
    /\ next_id' = next_id

\* reset_database
reset_database ==
    /\ beverages_db' = <<>>
    /\ next_id' = 1

\* DELETE /menu
clear_all_beverages ==
    /\ reset_database
    /\ issued' = <<>>
    /\ last' = Response("clear_all_beverages", 200, NoRecord)
    /\ UNCHANGED threadVars

Next ==
    \/ \E raw \in BeverageInputs : add_beverage(raw)
    \/ \E id \in IdInputs, raw \in BeverageInputs : update_beverage(id, raw)
    \/ \E id \in IdInputs, u \in BeverageUpdateInputs : partial_update_beverage(id, u)
    \/ \E id \in IdInputs : delete_beverage(id)
    \/ \E name \in NameInputs : get_beverage_by_name(name)
    \/ clear_all_beverages

Spec == Init /\ [][Next]_vars

\* the same requests with the wider range of prices
NextWide ==
    \/ \E raw \in WideBeverageInputs : add_beverage(raw)
    \/ \E id \in IdInputs, raw \in WideBeverageInputs : update_beverage(id, raw)
    \/ \E id \in IdInputs, u \in WideBeverageUpdateInputs :
          partial_update_beverage(id, u)
    \/ \E id \in IdInputs : delete_beverage(id)
    \/ \E name \in NameInputs : get_beverage_by_name(name)
    \/ clear_all_beverages

SpecWide == Init /\ [][NextWide]_vars

\* ------------------------------------------------------------ GET /menu

\* line 121-127: the list after the three conditional filters; "if size:"
\* skips the filter for None and for the empty string, the two price tests
\* only for None
filtered(db, size, min_price, max_price) ==
    LET bySize(b) == IsNone(size) \/ Value(size) = "" \/ b.size = Value(size)
        byMin(b) == IsNone(min_price) \/ b.price >= Value(min_price)
        byMax(b) == IsNone(max_price) \/ b.price <= Value(max_price)
    IN  SelectSeq(db, LAMBDA b : bySize(b) /\ byMin(b) /\ byMax(b))

\* GET /menu: the list is returned, every dict of it validated against
\* BeverageResponse
get_menu(size, min_price, max_price) ==
    /\ LET result == filtered(beverages_db, size, min_price, max_price)
       IN  last' = IF \A k \in 1..Len(result) : BeverageResponseOk(result[k])
                   THEN Response("get_menu", 200, NoRecord)
                   ELSE Response("get_menu", 500, NoRecord)
    /\ UNCHANGED <<beverages_db, next_id, issued>>
    /\ UNCHANGED threadVars

\* the size filters of the requests: absent, empty, two sizes
MenuSizes == Optional({"", "small", "medium"})

\* the price bounds of the requests: absent, 0, 4.57 and 5
MenuPrices == Optional({0, 4570, 5000})

\* the requests of Next and the list requests
NextMenu ==
    \/ Next
    \/ \E size \in MenuSizes, min_price \in MenuPrices, max_price \in MenuPrices :
          get_menu(size, min_price, max_price)

SpecMenu == Init /\ [][NextMenu]_vars

\* ------------------------------------- requests that vary every field
\* Two well-formed values of each field, and the prices at and around the
\* ends of the accepted range.

FieldNames == {<<" ", "a", " ">>, <<"b">>}

FieldSizes == {"small", "medium"}

\* 0.01 and 100
FieldPrices == {10, 100000}

\* -0.01, 0 and 100.01
BadPrices == {0 - 10, 0, 100010}

\* Request bodies for POST and PUT: every combination of the well-formed
\* values, and one of them with the price or the size replaced by a bad one.
FieldBodies ==
    [name : FieldNames, size : FieldSizes, price : FieldPrices]
    \cup {[name |-> <<"b">>, size |-> "medium", price |-> v] : v \in BadPrices}
    \cup {[name |-> <<"b">>, size |-> "xl", price |-> 10]}

\* Request bodies for PATCH: no field, one field (0.014 among the prices),
\* two fields, all three, and a bad price or size alone.
FieldUpdates ==
    {NoUpdate}
    \cup {[NoUpdate EXCEPT !.name = {v}] : v \in FieldNames}
    \cup {[NoUpdate EXCEPT !.size = {v}] : v \in FieldSizes \cup {"xl"}}
    \cup {[NoUpdate EXCEPT !.price = {v}] : v \in FieldPrices \cup {14} \cup BadPrices}
    \cup {[name |-> {<<"b">>}, size |-> {}, price |-> {14}],
          [name |-> {}, size |-> {"small"}, price |-> {100000}],
          [name |-> {<<" ", "a", " ">>}, size |-> {"medium"}, price |-> {14}]}

NextFields ==
    \/ \E raw \in FieldBodies : add_beverage(raw)
    \/ \E id \in IdInputs, raw \in FieldBodies : update_beverage(id, raw)
    \/ \E id \in IdInputs, u \in FieldUpdates : partial_update_beverage(id, u)
    \/ \E id \in IdInputs : delete_beverage(id)
    \/ \E name \in FieldNames : get_beverage_by_name(name)
    \/ clear_all_beverages

SpecFields == Init /\ [][NextFields]_vars

\* ------------------------------- requests at the ends of the price range

\* -0.01, 0, 0.004, 0.01, 100 and 100.01
EdgePrices == {0 - 10, 0, 4, 10, 100000, 100010}

\* Request bodies for POST and PUT: a well-formed name and size with each
\* of the prices.
PriceBodies ==
    {[name |-> n, size |-> "medium", price |-> v] : n \in FieldNames, v \in EdgePrices}

\* Request bodies for PATCH: no field, or each of the prices alone.
PriceUpdates ==
    {NoUpdate} \cup {[NoUpdate EXCEPT !.price = {v}] : v \in EdgePrices}

NextPrices ==
    \/ \E raw \in PriceBodies : add_beverage(raw)
    \/ \E id \in IdInputs, raw \in PriceBodies : update_beverage(id, raw)
    \/ \E id \in IdInputs, u \in PriceUpdates : partial_update_beverage(id, u)
    \/ \E id \in IdInputs : delete_beverage(id)
    \/ \E name \in FieldNames : get_beverage_by_name(name)
    \/ clear_all_beverages

SpecPrices == Init /\ [][NextPrices]_vars

\* --------------------------------- requests at the ends of the name length

\* a name of n letters
Long(n) == [i \in 1..n |-> "a"]

\* the empty and the blank name, two short names, one of them padded, names
\* of 100 and 101 letters, and the name of 100 letters behind one space
LengthNames ==
    { <<>>, <<" ">>, <<"b">>, <<" ", "a", " ">>,
      Long(100), Long(101), <<" ">> \o Long(100) }

\* Request bodies for POST and PUT: each of the names with a well-formed
\* size and price.
NameBodies ==
    {[name |-> n, size |-> z, price |-> 10] : n \in LengthNames, z \in FieldSizes}

NextNames ==
    \/ \E raw \in NameBodies : add_beverage(raw)
    \/ \E id \in IdInputs, raw \in NameBodies : update_beverage(id, raw)
    \/ \E id \in IdInputs : delete_beverage(id)
    \/ \E name \in LengthNames : get_beverage_by_name(name)
    \/ clear_all_beverages

SpecNames == Init /\ [][NextNames]_vars

\* ------------------------------------------------ threads in add_beverage
\* The handlers are plain "def" functions, which FastAPI runs on a thread
\* pool with no lock around beverages_db and next_id.  Each thread below runs
\* add_beverage one statement at a time.

storeVars == <<beverages_db, next_id, last, issued>>

\* Request bodies of the concurrent requests: GoodBody under every name.
ConcInputs == {raw \in BeverageInputs :
                 raw.size = GoodBody.size /\ raw.price = GoodBody.price}

\* the handler returns or raises: its locals are gone
Return(t) ==
    /\ pc' = [pc EXCEPT ![t] = "idle"]
    /\ req' = [req EXCEPT ![t] = NoRecord]
    /\ it' = [it EXCEPT ![t] = 0]
    /\ new_beverage' = [new_beverage EXCEPT ![t] = NoRecord]
    /\ tmp' = [tmp EXCEPT ![t] = 0]

\* the request arrives and is validated; line 142
AddStart(t, raw) ==
    /\ pc[t] = "idle"
    /\ next_id <= MaxId
    /\ Len(beverages_db) <= MaxId
    /\ IF ~BeverageOk(raw)
       THEN /\ Unprocessable("add_beverage")
            /\ UNCHANGED threadVars
       ELSE \E beverage \in Beverage(raw) :
            /\ req' = [req EXCEPT ![t] = [id |-> 0, name |-> beverage.name,
                                          size |-> beverage.size,
                                          price |-> beverage.price]]
            /\ it' = [it EXCEPT ![t] = 1]
            /\ pc' = [pc EXCEPT ![t] = "loop"]
            /\ UNCHANGED <<storeVars, new_beverage, tmp>>

\* line 143-145: one turn of the loop over beverages_db
AddLoop(t) ==
    /\ pc[t] = "loop"
    /\ IF it[t] > Len(beverages_db)
       THEN /\ pc' = [pc EXCEPT ![t] = "build"]
            /\ UNCHANGED <<storeVars, req, it, new_beverage, tmp>>
       ELSE IF Lower(beverages_db[it[t]].name) = Lower(req[t].name)
       THEN /\ Raise("add_beverage", 400)
            /\ Return(t)
       ELSE /\ it' = [it EXCEPT ![t] = it[t] + 1]
            /\ UNCHANGED <<storeVars, pc, req, new_beverage, tmp>>

\* line 146
AddBuild(t) ==
    /\ pc[t] = "build"
    /\ new_beverage' = [new_beverage EXCEPT ![t] =
            [id |-> AddId(next_id, beverages_db), name |-> req[t].name,
             size |-> req[t].size, price |-> req[t].price]]
    /\ pc' = [pc EXCEPT ![t] = "append"]
    /\ UNCHANGED <<storeVars, req, it, tmp>>

\* line 147
AddAppend(t) ==
    /\ pc[t] = "append"
    /\ beverages_db' = Append(beverages_db, new_beverage[t])
    /\ pc' = [pc EXCEPT ![t] = "read"]
    /\ UNCHANGED <<next_id, last, issued, req, it, new_beverage, tmp>>

\* line 148, the load of next_id
AddRead(t) ==
    /\ pc[t] = "read"
    /\ tmp' = [tmp EXCEPT ![t] = next_id]
    /\ pc' = [pc EXCEPT ![t] = "write"]
    /\ UNCHANGED <<storeVars, req, it, new_beverage>>

\* line 148, the store to next_id; line 149
AddWrite(t) ==
    /\ pc[t] = "write"
    /\ next_id' = tmp[t] + 1
    /\ last' = Reply("add_beverage", 201, new_beverage[t])
    /\ issued' = Append(issued, new_beverage[t].id)
    /\ Return(t)
    /\ UNCHANGED beverages_db

NextConc ==
    \/ \E t \in Threads, raw \in ConcInputs : AddStart(t, raw)
    \/ \E t \in Threads : AddLoop(t)
    \/ \E t \in Threads : AddBuild(t)
    \/ \E t \in Threads : AddAppend(t)
    \/ \E t \in Threads : AddRead(t)
    \/ \E t \in Threads : AddWrite(t)

SpecConc == Init /\ [][NextConc]_vars

\* ------------------------- threads in update_beverage and delete_beverage
\* One thread runs update_beverage and another delete_beverage, one
\* statement at a time, on a store filled by creates that ran alone.  it[t]
\* is the position of the enumerate() iterator and the index i, tmp[t] the
\* position of the iterator of the inner loop.

\* the thread serving PUT and the thread serving DELETE
Replacer == 1
Deleter == 2

\* an unhandled exception (IndexError) is answered 500
Unhandled(op) ==
    /\ last' = Response(op, 500, NoRecord)
    /\ UNCHANGED <<beverages_db, next_id, issued>>

\* a create served while no other request is running
AddAlone(raw) ==
    /\ \A t \in Threads : pc[t] = "idle"
    /\ add_beverage(raw)

\* the PUT arrives and is validated
UpdStart(t, beverage_id, raw) ==
    /\ pc[t] = "idle"
    /\ IF ~BeverageOk(raw)
       THEN /\ Unprocessable("update_beverage")
            /\ UNCHANGED threadVars
       ELSE \E beverage \in Beverage(raw) :
            /\ req' = [req EXCEPT ![t] = [id |-> beverage_id, name |-> beverage.name,
                                          size |-> beverage.size,
                                          price |-> beverage.price]]
            /\ it' = [it EXCEPT ![t] = 1]
            /\ pc' = [pc EXCEPT ![t] = "u_find"]
            /\ UNCHANGED <<storeVars, new_beverage, tmp>>

\* line 153-154 and 162: one turn of the loop over enumerate(beverages_db)
UpdFind(t) ==
    /\ pc[t] = "u_find"
    /\ IF it[t] > Len(beverages_db)
       THEN /\ Raise("update_beverage", 404)
            /\ Return(t)
       ELSE IF beverages_db[it[t]].id = req[t].id
       THEN /\ tmp' = [tmp EXCEPT ![t] = 1]
            /\ pc' = [pc EXCEPT ![t] = "u_check"]
            /\ UNCHANGED <<storeVars, req, it, new_beverage>>
       ELSE /\ it' = [it EXCEPT ![t] = it[t] + 1]
            /\ UNCHANGED <<storeVars, pc, req, new_beverage, tmp>>

\* line 156-158: one turn of the loop over the other records
UpdCheck(t) ==
    /\ pc[t] = "u_check"
    /\ IF tmp[t] > Len(beverages_db)
       THEN /\ pc' = [pc EXCEPT ![t] = "u_build"]
            /\ UNCHANGED <<storeVars, req, it, new_beverage, tmp>>
       ELSE IF /\ beverages_db[tmp[t]].id # req[t].id
               /\ Lower(beverages_db[tmp[t]].name) = Lower(req[t].name)
       THEN /\ Raise("update_beverage", 400)
            /\ Return(t)
       ELSE /\ tmp' = [tmp EXCEPT ![t] = tmp[t] + 1]
            /\ UNCHANGED <<storeVars, pc, req, it, new_beverage>>

\* line 159
UpdBuild(t) ==
    /\ pc[t] = "u_build"
    /\ new_beverage' = [new_beverage EXCEPT ![t] = req[t]]
    /\ pc' = [pc EXCEPT ![t] = "u_write"]
    /\ UNCHANGED <<storeVars, req, it, tmp>>

\* line 160-161: beverages_db[i] = updated raises IndexError when the list
\* has become shorter than i
UpdWrite(t) ==
    /\ pc[t] = "u_write"
    /\ IF it[t] > Len(beverages_db)
       THEN Unhandled("update_beverage")
       ELSE /\ beverages_db' = [beverages_db EXCEPT ![it[t]] = new_beverage[t]]
            /\ last' = Reply("update_beverage", 200, new_beverage[t])
            /\ UNCHANGED <<next_id, issued>>
    /\ Return(t)

\* the DELETE arrives
DelStart(t, beverage_id) ==
    /\ pc[t] = "idle"
    /\ req' = [req EXCEPT ![t] = [NoRecord EXCEPT !.id = beverage_id]]
    /\ it' = [it EXCEPT ![t] = 1]
    /\ pc' = [pc EXCEPT ![t] = "d_find"]
    /\ UNCHANGED <<storeVars, new_beverage, tmp>>

\* line 179-180 and 183: one turn of the loop over enumerate(beverages_db)
DelFind(t) ==
    /\ pc[t] = "d_find"
    /\ IF it[t] > Len(beverages_db)
       THEN /\ Raise("delete_beverage", 404)
            /\ Return(t)
       ELSE IF beverages_db[it[t]].id = req[t].id
       THEN /\ pc' = [pc EXCEPT ![t] = "d_pop"]
            /\ UNCHANGED <<storeVars, req, it, new_beverage, tmp>>
       ELSE /\ it' = [it EXCEPT ![t] = it[t] + 1]
            /\ UNCHANGED <<storeVars, pc, req, new_beverage, tmp>>

\* line 181-182: pop(i) raises IndexError when the list has become shorter
\* than i
DelPop(t) ==
    /\ pc[t] = "d_pop"
    /\ IF it[t] > Len(beverages_db)
       THEN Unhandled("delete_beverage")
       ELSE /\ beverages_db' = Pop(beverages_db, it[t])
            /\ last' = Response("delete_beverage", 204, NoRecord)
            /\ UNCHANGED <<next_id, issued>>
    /\ Return(t)

NextReplaceDelete ==
    \/ \E raw \in ConcInputs : AddAlone(raw)
    \/ \E id \in IdInputs, raw \in ConcInputs : UpdStart(Replacer, id, raw)
    \/ UpdFind(Replacer)
    \/ UpdCheck(Replacer)
    \/ UpdBuild(Replacer)
    \/ UpdWrite(Replacer)
    \/ \E id \in IdInputs : DelStart(Deleter, id)
    \/ DelFind(Deleter)
    \/ DelPop(Deleter)

SpecReplaceDelete == Init /\ [][NextReplaceDelete]_vars

\* ---------------------------------------------------------------- claims

Range(f) == {f[i] : i \in DOMAIN f}

\* the request on this step was served by handler op
Served(op) == last'.op = op

\* the position of the record with this id, 0 if there is none
PositionOf(id) ==
    IF \E k \in 1..Len(beverages_db) : beverages_db[k].id = id
    THEN CHOOSE k \in 1..Len(beverages_db) : beverages_db[k].id = id
    ELSE 0

\* some record other than the one with this id bears the name, ignoring
\* case and surrounding whitespace
NameOfOther(id, name) ==
    LET folded == Lower(Strip(name))
    IN  \E k \in 1..Len(beverages_db) :
            /\ beverages_db[k].id # id
            /\ Lower(beverages_db[k].name) = folded

StoreUnchanged == beverages_db' = beverages_db /\ next_id' = next_id

\* the queried name is the stored one in some letter casing, with or
\* without surrounding whitespace
SameName(query, stored) == Lower(Strip(query)) = Lower(stored)

\* p is v rounded to 2 decimals
Rounded(v, p) == p % 10 = 0 /\ p - v <= 5 /\ v - p <= 5

\* C1: no two stored records have names equal under case-insensitive
\* comparison, in any state reachable by create, replace, patch, delete and
\* reset run one at a time.
C1_NameUniqueness ==
    \A i, j \in 1..Len(beverages_db) :
        i # j => Lower(beverages_db[i].name) # Lower(beverages_db[j].name)

\* a patch that passes validation, carries a name and targets an existing id
C2_PatchStep(id, u) ==
    /\ u.name # {}
    /\ PositionOf(id) # 0
    /\ BeverageUpdateOk(u)
    /\ partial_update_beverage(id, u)

\* C2: a patch on an existing id carrying a name that equals, ignoring case
\* and surrounding whitespace, the name of a different record fails with
\* the duplicate-name conflict (400) and leaves the collection unchanged; a
\* patch carrying the record's own current name succeeds.
C2_PatchNameConflict ==
    [][Served("partial_update_beverage") =>
         \A id \in IdInputs, u \in BeverageUpdateInputs :
            C2_PatchStep(id, u) =>
               IF NameOfOther(id, Value(u.name))
               THEN last'.status = 400 /\ beverages_db' = beverages_db
               ELSE Value(u.name) = beverages_db[PositionOf(id)].name
                       => last'.status = 200]_vars

\* C3: all ids in the collection are distinct, every stored id was handed
\* out by a create since the last reset, and each successful create returns
\* an id strictly greater than every id handed out before it since then,
\* deleted records' ids included.
C3_IdsUniqueMonotonic ==
    /\ \A i, j \in 1..Len(beverages_db) :
          i # j => beverages_db[i].id # beverages_db[j].id
    /\ \A k \in 1..Len(beverages_db) : beverages_db[k].id \in Range(issued)
    /\ \A i, j \in 1..Len(issued) : i < j => issued[i] < issued[j]
    /\ (last.op = "add_beverage" /\ last.status = 201) =>
          /\ issued # <<>>
          /\ last.ret.id = issued[Len(issued)]
          /\ \A i \in 1..(Len(issued) - 1) : issued[i] < last.ret.id

\* a create has just succeeded after an earlier record was deleted
C3_Witness ==
    /\ last.op = "add_beverage" /\ last.status = 201
    /\ Len(issued) >= 2
    /\ \E i \in 1..Len(issued) :
          \A k \in 1..Len(beverages_db) : beverages_db[k].id # issued[i]

\* C4: every stored price is strictly greater than 0, at most 100 and has
\* at most 2 decimal places.
C4_PriceInvariant ==
    \A k \in 1..Len(beverages_db) :
        /\ beverages_db[k].price > 0
        /\ beverages_db[k].price <= 100 * 1000
        /\ beverages_db[k].price % 10 = 0

\* a patch on an existing id carrying a name that is blank once trimmed
C5_PatchStep(id, u) ==
    /\ u.name # {}
    /\ Strip(Value(u.name)) = <<>>
    /\ PositionOf(id) # 0
    /\ partial_update_beverage(id, u)

\* C5: a patch carrying a name that is empty after trimming fails with a
\* validation error (422) and leaves the record unchanged, and so every
\* stored name is non-empty in every reachable state.
C5_PatchEmptyName ==
    /\ [](\A k \in 1..Len(beverages_db) : beverages_db[k].name # <<>>)
    /\ [][Served("partial_update_beverage") =>
            \A id \in IdInputs, u \in BeverageUpdateInputs :
               C5_PatchStep(id, u) =>
                  last'.status = 422 /\ beverages_db' = beverages_db]_vars

\* C6: when creates run concurrently, interleaved statement by statement,
\* two creates whose names are equal ignoring case never both succeed, so
\* no two stored records share a name (checked under SpecConc).
C6_AtomicCreates ==
    \A i \in 1..Len(beverages_db) : \A j \in (i + 1)..Len(beverages_db) :
        Lower(beverages_db[i].name) # Lower(beverages_db[j].name)

\* C7: a create with a valid candidate (one the Beverage model accepts)
\* whose trimmed name equals, ignoring case, the name of an existing record
\* fails with the duplicate-name conflict (400), appends nothing and leaves
\* the counter alone; the counter goes up by exactly one on each successful
\* create (201) and changes on no other operation but reset (checked under
\* SpecWide).
C7_CreateConflict ==
    [][/\ Served("add_beverage") =>
            \A raw \in BeverageInputs :
               (/\ BeverageOk(raw) /\ NameOfOther(0, raw.name)
                /\ add_beverage(raw))
                  => /\ last'.status = 400
                     /\ beverages_db' = beverages_db
                     /\ next_id' = next_id
       /\ (Served("add_beverage") /\ last'.status = 201) => next_id' = next_id + 1
       /\ next_id' # next_id =>
            \/ Served("add_beverage") /\ last'.status = 201
            \/ Served("clear_all_beverages")]_vars

\* C8: right after a successful create, the lookup by name with the
\* created name in any casing and with or without surrounding whitespace
\* returns the record just created, whose name is the trimmed candidate name.
C8_CreateLookupRoundTrip ==
    /\ []((last.op = "add_beverage" /\ last.status = 201) =>
            \A query \in NameInputs :
               SameName(query, last.ret.name) =>
                  FindByName(beverages_db, query) = last.ret)
    /\ [][(Served("add_beverage") /\ last'.status = 201) =>
            \A raw \in BeverageInputs :
               add_beverage(raw) =>
                  /\ last'.ret.name = Strip(raw.name)
                  /\ last'.ret = beverages_db'[Len(beverages_db')]]_vars

\* a create has just succeeded and its name has another spelling, padded
\* with whitespace
C8_Witness ==
    /\ last.op = "add_beverage" /\ last.status = 201
    /\ \E query \in NameInputs :
          /\ query # last.ret.name
          /\ Strip(query) # query
          /\ SameName(query, last.ret.name)

\* C9: for an existing id, replace with a valid candidate (one the Beverage
\* model accepts) succeeds (200) when the
\* name collides with no other record and then overwrites name, size and
\* price of that record in place, keeping its id and position and leaving
\* the other records and the counter unchanged; when the name is another
\* record's, ignoring case, it fails with the duplicate-name conflict (400)
\* and changes nothing (checked under SpecWide).
C9_Replace ==
    [][Served("update_beverage") =>
         LET valid == {b \in WideBeverageInputs : BeverageOk(b)}
             existing == {i \in IdInputs : PositionOf(i) # 0}
         IN  \A id \in existing, raw \in valid :
            update_beverage(id, raw) =>
               IF NameOfOther(id, raw.name)
               THEN /\ last'.status = 400
                    /\ beverages_db' = beverages_db
                    /\ next_id' = next_id
               ELSE /\ last'.status = 200
                    /\ Len(beverages_db') = Len(beverages_db)
                    /\ \A k \in 1..Len(beverages_db) :
                         IF k = PositionOf(id)
                         THEN /\ beverages_db'[k].id = id
                              /\ beverages_db'[k].name = Strip(raw.name)
                              /\ beverages_db'[k].size = raw.size
                              /\ Rounded(raw.price, beverages_db'[k].price)
                              /\ last'.ret = beverages_db'[k]
                         ELSE beverages_db'[k] = beverages_db[k]
                    /\ next_id' = next_id]_vars

C11_PatchFrame ==
    [][(Served("partial_update_beverage") /\ last'.status = 200) =>
         \A id \in IdInputs, u \in FieldUpdates :
            (PositionOf(id) # 0 /\ partial_update_beverage(id, u)) =>
               /\ Len(beverages_db') = Len(beverages_db)
               /\ next_id' = next_id
               /\ \A k \in 1..Len(beverages_db) :
                     IF k = PositionOf(id)
                     THEN /\ beverages_db'[k].id = id
                          /\ beverages_db'[k].name =
                                IF u.name = {} THEN beverages_db[k].name
                                ELSE Strip(Value(u.name))
                          /\ beverages_db'[k].size =
                                IF u.size = {} THEN beverages_db[k].size
                                ELSE Value(u.size)
                          /\ IF u.price = {}
                             THEN beverages_db'[k].price = beverages_db[k].price
                             ELSE Rounded(Value(u.price), beverages_db'[k].price)
                          /\ last'.ret = beverages_db'[k]
                     ELSE beverages_db'[k] = beverages_db[k]]_vars

\* a patch has just succeeded on the first of two records, which now differs
\* from the second in every field
C11_Witness ==
    /\ last.op = "partial_update_beverage" /\ last.status = 200
    /\ Len(beverages_db) = 2
    /\ last.ret = beverages_db[1]
    /\ beverages_db[1].name # beverages_db[2].name
    /\ beverages_db[1].size # beverages_db[2].size
    /\ beverages_db[1].price # beverages_db[2].price

\* C12: delete on an existing id answers 204, removes exactly that record
\* and leaves the other records, their order and the counter unchanged;
\* afterwards the lookup by the name of the deleted record finds nothing
\* (404) and a create with that name is not refused as a duplicate and
\* gets an id no record has.
C12_Delete ==
    [][Served("delete_beverage") =>
         \A id \in IdInputs :
            (PositionOf(id) # 0 /\ delete_beverage(id)) =>
               LET k == PositionOf(id)
                   deleted == beverages_db[k]
               IN  /\ last'.status = 204
                   /\ beverages_db' = SubSeq(beverages_db, 1, k - 1)
                                         \o SubSeq(beverages_db, k + 1, Len(beverages_db))
                   /\ next_id' = next_id
                   /\ FindByName(beverages_db', deleted.name) = NoRecord
                   /\ ~AddNameTaken(beverages_db', deleted)
                   /\ \A j \in 1..Len(beverages_db') :
                         beverages_db'[j].id # AddId(next_id', beverages_db')]_vars

\* the records of db, in order, that satisfy every filter that is supplied
Matching(db, size, min_price, max_price) ==
    LET keep == {k \in 1..Len(db) :
                   /\ size # {} => db[k].size = Value(size)
                   /\ min_price # {} => db[k].price >= Value(min_price)
                   /\ max_price # {} => db[k].price <= Value(max_price)}
        RECURSIVE upto(_)
        upto(n) == IF n = 0 THEN <<>>
                   ELSE IF n \in keep THEN Append(upto(n - 1), db[n])
                   ELSE upto(n - 1)
    IN  upto(Len(db))

\* C13: in every state and for every combination of the filters size,
\* min_price and max_price, each supplied or absent, the list request
\* answers 200 with exactly the records that satisfy every supplied filter
\* (size equal, price >= min_price, price <= max_price), an absent filter
\* excluding nothing, and leaves the collection and the counter unchanged.
C13_ListFiltering ==
    [][Served("get_menu") =>
         \A size \in MenuSizes, min_price \in MenuPrices, max_price \in MenuPrices :
            get_menu(size, min_price, max_price) =>
               /\ last'.status = 200
               /\ filtered(beverages_db, size, min_price, max_price)
                     = Matching(beverages_db, size, min_price, max_price)
               /\ StoreUnchanged]_vars

\* 0 < price <= 100, in thousandths
InPriceRange(v) == 0 < v /\ v <= 100000

C15_Reset ==
    [][/\ Served("clear_all_beverages") =>
            /\ last'.status = 200
            /\ beverages_db' = <<>>
            /\ next_id' = 1
       /\ (/\ beverages_db = <<>> /\ next_id = 1
           /\ Served("add_beverage") /\ last'.status = 201) =>
            /\ last'.ret.id = 1
            /\ beverages_db' = <<last'.ret>>]_vars

\* the store has just been reset
C15_Witness ==
    /\ last.op = "clear_all_beverages"
    /\ beverages_db = <<>>
    /\ next_id = 1

\* the name has 1 to 100 characters once trimmed
TrimmedLengthOk(name) == Len(Strip(name)) >= 1 /\ Len(Strip(name)) <= 100

\* C16: create and replace, given a body whose size and price are valid,
\* accept the name (the request passes validation) exactly when the
\* trimmed name has 1 to 100 characters, whatever whitespace surrounds it,
\* and otherwise answer with the validation failure (422) and change
\* nothing; the name stored by a successful request is the trimmed name.
C16_TrimmedNameLength ==
    [][/\ Served("add_beverage") =>
            \A raw \in NameBodies :
               add_beverage(raw) =>
                  IF TrimmedLengthOk(raw.name)
                  THEN /\ last'.status # 422
                       /\ last'.status = 201 => last'.ret.name = Strip(raw.name)
                  ELSE last'.status = 422 /\ StoreUnchanged
       /\ Served("update_beverage") =>
            \A id \in IdInputs, raw \in NameBodies :
               update_beverage(id, raw) =>
                  IF TrimmedLengthOk(raw.name)
                  THEN /\ last'.status # 422
                       /\ last'.status = 200 => last'.ret.name = Strip(raw.name)
                  ELSE last'.status = 422 /\ StoreUnchanged]_vars

\* the ids of the records of db, in the order of db
Ids(db) == [k \in 1..Len(db) |-> db[k].id]

\* strictly ascending
Ascending(ids) == \A i, j \in 1..Len(ids) : i < j => ids[i] < ids[j]

C18_ConcurrentIds ==
    LET distinct == \A i, j \in 1..Len(beverages_db) :
                       i # j => Lower(beverages_db[i].name) # Lower(beverages_db[j].name)
    IN  distinct =>
           /\ \A i, j \in 1..Len(beverages_db) :
                 i # j => beverages_db[i].id # beverages_db[j].id
           /\ (\A t \in Threads : pc[t] = "idle") =>
                 \A k \in 1..Len(beverages_db) : next_id > beverages_db[k].id

\* C19: when a replace of a record runs concurrently with a delete of a
\* different record, interleaved statement by statement, the write of the
\* replace changes no record but its target and the pop of the delete
\* removes no record but its target, and neither is answered with an
\* unhandled error (500) such as an index out of range (checked under
\* SpecReplaceDelete; the target of the replace is still stored when it
\* writes exactly when the delete was of a different record).
C19_ReplaceDeleteInterleaving ==
    [][/\ (/\ pc[Replacer] = "u_write" /\ pc'[Replacer] = "idle"
           /\ PositionOf(req[Replacer].id) # 0) =>
            /\ last'.status # 500
            /\ Len(beverages_db') = Len(beverages_db)
            /\ \A k \in 1..Len(beverages_db) :
                  beverages_db[k].id # req[Replacer].id
                     => beverages_db'[k] = beverages_db[k]
       /\ (pc[Deleter] = "d_pop" /\ pc'[Deleter] = "idle") =>
            /\ last'.status # 500
            /\ \A k \in 1..Len(beverages_db) :
                  beverages_db[k].id # req[Deleter].id
                     => \E j \in 1..Len(beverages_db') :
                           beverages_db'[j] = beverages_db[k]]_vars

\* C20: a create, replace, patch, delete or lookup that is answered with a
\* failure (400, 404, 422 or 500) leaves the collection and the counter
\* exactly as they were before the request: nothing of its mutation is
\* applied before it fails.
C20_FailureAtomicity ==
    [][(/\ last'.op \in {"add_beverage", "update_beverage",
                         "partial_update_beverage", "delete_beverage",
                         "get_beverage_by_name"}
        /\ last'.status \in {400, 404, 422, 500}) => StoreUnchanged]_vars

====
